---- MODULE Spec2Model ----
(***************************************************************************)
(* Model of the Global Weather API client of                              *)
(* src/examples/python/weather_client.py: the request cache, the two      *)
(* retry layers of WeatherClient._make_request (the urllib3 Retry adapter *)
(* mounted on the session and the backoff decorator), the status-code to  *)
(* error mapping, the client operations built on top of them, and the     *)
(* WeatherMonitor that polls the client and evaluates threshold rules.    *)
(*                                                                         *)
(* Python values are encoded as follows.  A dict is the set of its        *)
(* <<key, value>> pairs, so {} is the empty dict and the only falsy one.  *)
(* An Optional[...] is a sequence of length 0 (None) or 1.  An exception  *)
(* is a record naming its class and the fixed prefix of its message.      *)
(* WeatherMonitor.thresholds, whose iteration order matters, is the       *)
(* sequence of its <<key, rule>> items in insertion order; its keys are   *)
(* strings built as the code builds them.                                 *)
(***************************************************************************)
EXTENDS Integers, Sequences, FiniteSets, TLC

VARIABLES
    max_retries,    \* WeatherConfig.max_retries, fixed at construction
    cache,          \* WeatherClient._cache: key -> (data, timestamp)
    now,            \* time.time()
    pc,             \* position of the calling thread
    op,             \* client operation the caller invoked
    args,           \* its arguments
    method,         \* _make_request arguments
    endpoint,
    params,
    use_cache,
    tries,          \* backoff: number of invocations of _make_request so far
    retry_total,    \* urllib3 Retry.total left for the running session.request
    attempts,       \* network attempts made on behalf of the current call
    hist,           \* the responses the transport gave to the current call
    cached_data,    \* _make_request's local: what _get_from_cache returned
    last_saved,     \* history: key -> the (data, timestamp) last written for it
    outcome,        \* what the call returned or raised
    batch_pc,       \* batch_weather_request: position of its loop
    locations,      \* its arguments
    request_type,
    batch_i,        \* index of the location the loop is at
    results,        \* its local dict: location -> weather data or error marker
    after_mutation, \* history: the call before this list_webhooks changed a webhook
    thresholds,     \* WeatherMonitor.thresholds, in insertion order: <<key, rule>>
    callbacks,      \* WeatherMonitor.callbacks['threshold_exceeded']
    thread,         \* the thread of start_monitoring: position in monitor_loop
    mon_pc,         \* check_thresholds: position of the run in progress
    mon_error,      \* class of the exception that left check_thresholds
    monitored,      \* its local set `locations`: those the loop has not visited
    mon_location,   \* its loop variable `location`
    current_data,   \* its local: weather['current']
    rule_i,         \* index in thresholds.items() of the inner loop
    cb_i,           \* _trigger_callbacks: index of the callback the loop is at
    fetched,        \* history of the run: locations given to get_current_weather
    observed,       \* history of the run: location -> the weather['current'] read
    evaluated,      \* history of the run: rules compared, and under which location
    invoked,        \* history of the run: the callback invocations
    heap,           \* dict objects: object -> key -> (data, timestamp)
    self_cache,     \* the object self._cache names when threads share the client
    saving          \* thread -> its frame of _save_to_cache

\* the call in progress: _make_request's arguments, locals and retry state
call_vars == <<op, args, method, endpoint, params, use_cache, tries,
               retry_total, attempts, hist, cached_data, outcome>>

batch_vars == <<batch_pc, locations, request_type, batch_i, results>>

\* the WeatherMonitor: its rules and callbacks, its thread, the run in progress
monitor_vars == <<thresholds, callbacks, thread, mon_pc, mon_error, monitored,
                  mon_location, current_data, rule_i, cb_i, fetched, observed,
                  evaluated, invoked>>

\* the client's cache as two threads see it
shared_vars == <<heap, self_cache, saving>>

\* what the client's own single-threaded operations never touch
other_vars == <<after_mutation, monitor_vars, shared_vars>>

vars == <<max_retries, cache, now, pc, call_vars, last_saved, batch_vars,
          other_vars>>

----------------------------------------------------------------------------
(* Bounds of the model *)

MaxTime == 600          \* the clock stops here
MaxRetriesCfg == 2      \* largest max_retries of the retry specification
MaxCacheEntries == 1    \* client operations are issued while the cache has room
MaxDays == 8            \* get_forecast is called with days in 0..MaxDays
MaxLimit == 11          \* search_locations is called with limit in 0..MaxLimit
MaxBatch == 2           \* longest list given to batch_weather_request
MaxRules == 2           \* most keys set_threshold puts into thresholds
MaxCallbacks == 2       \* most callbacks registered for threshold_exceeded

----------------------------------------------------------------------------
(* Program constants *)

cache_ttl == 300
max_tries == 3
default_retry_after == 60
default_days == 5

\* Retry(total=max_retries, status_forcelist=..., method_whitelist=...) of
\* lines 126-131, with the meaning urllib3 1.x gives these arguments: total
\* retries after the first attempt, on connection errors for every method and
\* on read errors and the listed statuses for the listed methods; once they
\* are used up requests raises a RequestException
status_forcelist == {429, 500, 502, 503, 504}
method_whitelist == {"HEAD", "GET", "OPTIONS"}

----------------------------------------------------------------------------
(* Python values *)

None == << >>
Some(v) == << v >>

\* bool(d) of an Optional[Dict]: None and the empty dict are falsy
Truthy(opt) == opt # None /\ opt[1] # {}
\* bool(s) of an Optional[str]: None and "" are falsy
TruthyStr(opt) == opt # None /\ opt[1] # ""
\* bool(x) of an Optional[float]: None and 0 are falsy
TruthyNum(opt) == opt # None /\ opt[1] # 0

\* json.dumps of an Optional number
JsonNum(opt) == IF opt = None THEN "null" ELSE ToString(opt[1])

\* d.get(k, default) of a dict
DictGet(d, k, default) ==
    IF \E kv \in d : kv[1] = k
    THEN (CHOOSE kv \in d : kv[1] = k)[2]
    ELSE default

EmptyPayload == {}
Payloads == { EmptyPayload, {<<"temperature", 31>>} }

----------------------------------------------------------------------------
(* The transport's answers: one per network attempt *)

NoHeader == -1

HttpResponse(s, ra, b) ==
    [type |-> "http", status |-> s, retry_after |-> ra, body |-> b]
ConnectError ==
    [type |-> "connect_error", status |-> 0, retry_after |-> NoHeader,
     body |-> EmptyPayload]
ReadError ==
    [type |-> "read_error", status |-> 0, retry_after |-> NoHeader,
     body |-> EmptyPayload]

Statuses == {200, 400, 401, 404, 429, 501, 503}

Responses ==
    { HttpResponse(200, NoHeader, b) : b \in Payloads }
    \cup { HttpResponse(s, NoHeader, EmptyPayload) : s \in Statuses \ {200} }
    \cup { HttpResponse(429, 30, EmptyPayload) }
    \cup { ConnectError, ReadError }

----------------------------------------------------------------------------
(* Outcomes of a call *)

NoOutcome == [kind |-> "none", msg |-> "", data |-> EmptyPayload, retry_after |-> 0]
Returned(d) == [kind |-> "ok", msg |-> "", data |-> d, retry_after |-> 0]
Raised(cls, m) == [kind |-> cls, msg |-> m, data |-> EmptyPayload, retry_after |-> 0]
RaisedRateLimit(ra) ==
    [kind |-> "RateLimitError", msg |-> "Rate limit exceeded",
     data |-> EmptyPayload, retry_after |-> ra]

----------------------------------------------------------------------------
(* Cache *)

_get_cache_key(e, p) == <<e, p>>

\* _get_from_cache with the age test off by one: an entry of age ttl is served
_get_from_cache_AgeInclusive(c, key, t) ==
    IF key \in DOMAIN c /\ t - c[key].timestamp <= cache_ttl
    THEN Some(c[key].data)
    ELSE None

\* _get_from_cache with half the lifetime: an entry of age ttl/2 is a miss
_get_from_cache_HalfTtl(c, key, t) ==
    IF key \in DOMAIN c /\ t - c[key].timestamp < cache_ttl \div 2
    THEN Some(c[key].data)
    ELSE None

_get_from_cache(c, key, t) ==
    IF key \in DOMAIN c /\ t - c[key].timestamp < cache_ttl
    THEN Some(c[key].data)
    ELSE None

\* _save_to_cache with the sweep off by one: an entry of age ttl is kept
_save_to_cache_SweepInclusive(c, key, data, t) ==
    LET stored == [k \in DOMAIN c \cup {key} |->
                      IF k = key THEN [data |-> data, timestamp |-> t]
                                 ELSE c[k]]
        kept == {k \in DOMAIN stored : t - stored[k].timestamp <= cache_ttl}
    IN  [k \in kept |-> stored[k]]

_save_to_cache(c, key, data, t) ==
    LET stored == [k \in DOMAIN c \cup {key} |->
                      IF k = key THEN [data |-> data, timestamp |-> t]
                                 ELSE c[k]]
        kept == {k \in DOMAIN stored : t - stored[k].timestamp < cache_ttl}
    IN  [k \in kept |-> stored[k]]

\* line 157 seen from outside: the write of (data, time.time()) under key
Written(h, key, data, t) ==
    [k \in DOMAIN h \cup {key} |->
        IF k = key THEN [data |-> data, timestamp |-> t] ELSE h[k]]

----------------------------------------------------------------------------
(* Retry layers *)

\* urllib3 Retry._is_method_retryable
is_method_retryable(m) == m \in method_whitelist

\* urllib3 Retry.is_retry for a response (no Retry-After driven retry is
\* possible for a method outside the whitelist either)
is_retry(m, s) == is_method_retryable(m) /\ s \in status_forcelist

\* backoff.on_exception(expo, (RequestException, RateLimitError), ...):
\* the exception classes that make backoff call _make_request again
backoff_retries(cls) == cls \in {"RequestException", "RateLimitError"}

\* lines 229-242 without the 404 branch of line 236: a 404 passes for a success
StatusError_NotFoundIgnored(resp) ==
    IF resp.status = 401 THEN Raised("AuthenticationError", "Invalid API key")
    ELSE IF resp.status = 429
         THEN RaisedRateLimit(IF resp.retry_after = NoHeader
                              THEN default_retry_after ELSE resp.retry_after)
    ELSE IF resp.status >= 500 THEN Raised("WeatherAPIError", "Server error")
    ELSE IF resp.status >= 400 /\ resp.status # 404
         THEN Raised("WeatherAPIError", "Request failed")
    ELSE NoOutcome

\* response.status_code -> exception raised by lines 229-242, or "none"
StatusError(resp) ==
    IF resp.status = 401 THEN Raised("AuthenticationError", "Invalid API key")
    ELSE IF resp.status = 429
         THEN RaisedRateLimit(IF resp.retry_after = NoHeader
                              THEN default_retry_after ELSE resp.retry_after)
    ELSE IF resp.status = 404 THEN Raised("WeatherAPIError", "Resource not found")
    ELSE IF resp.status >= 500 THEN Raised("WeatherAPIError", "Server error")
    ELSE IF resp.status >= 400 THEN Raised("WeatherAPIError", "Request failed")
    ELSE NoOutcome

----------------------------------------------------------------------------
(* Initial state: a freshly constructed client *)

NoArgs == [location |-> None, lat |-> None, lon |-> None, days |-> 0, limit |-> 0]

\* the threads that share one client: the caller's and the monitor's
Threads == {"caller", "monitor"}

\* a thread that is not inside _save_to_cache
NoFrame == [pc |-> "idle", key |-> "", data |-> EmptyPayload, src |-> 0,
            size |-> 0, error |-> "none"]

\* WeatherMonitor.__init__ (lines 573-575), no run of check_thresholds so far
InitMonitor ==
    /\ thresholds = << >>
    /\ callbacks = << >>
    /\ thread = "none"
    /\ mon_pc = "idle"
    /\ mon_error = "none"
    /\ monitored = {}
    /\ mon_location = ""
    /\ current_data = {}
    /\ rule_i = 0
    /\ cb_i = 0
    /\ fetched = << >>
    /\ observed = << >>
    /\ evaluated = << >>
    /\ invoked = << >>

\* line 138 as threads see it: self._cache names one empty dict object
InitShared ==
    /\ heap = [o \in {0} |-> << >>]
    /\ self_cache = 0
    /\ saving = [t \in Threads |-> NoFrame]

InitWith(retries) ==
    /\ max_retries \in retries
    /\ cache = << >>
    /\ now = 0
    /\ pc = "idle"
    /\ op = "none"
    /\ args = NoArgs
    /\ method = "GET"
    /\ endpoint = ""
    /\ params = {}
    /\ use_cache = TRUE
    /\ tries = 0
    /\ retry_total = 0
    /\ attempts = 0
    /\ hist = << >>
    /\ cached_data = None
    /\ last_saved = << >>
    /\ outcome = NoOutcome
    /\ batch_pc = "none"
    /\ locations = << >>
    /\ request_type = "current"
    /\ batch_i = 0
    /\ results = << >>
    /\ after_mutation = FALSE
    /\ InitMonitor
    /\ InitShared

\* a client constructed with max_retries=0: every session.request is a
\* single network attempt (the adapter's retries are SpecRetry's subject)
Init == InitWith({0})

InitRetry == InitWith(0..MaxRetriesCfg)

----------------------------------------------------------------------------
(* _make_request *)

\* a caller enters _make_request through the backoff wrapper
EnterRequest(o, a, m, e, p, uc) ==
    /\ pc' = "request"
    /\ op' = o
    /\ args' = a
    /\ method' = m
    /\ endpoint' = e
    /\ params' = p
    /\ use_cache' = uc
    /\ tries' = 1
    /\ retry_total' = 0
    /\ attempts' = 0
    /\ hist' = << >>
    /\ cached_data' = None
    /\ outcome' = NoOutcome

\* a client operation raises before it reaches _make_request
Reject(o, a, exc) ==
    /\ pc' = "done"
    /\ op' = o
    /\ args' = a
    /\ attempts' = 0
    /\ hist' = << >>
    /\ cached_data' = None
    /\ outcome' = exc
    /\ UNCHANGED <<method, endpoint, params, use_cache, tries, retry_total>>

\* the frame of the last call is gone: no call's locals are live
NoCall ==
    /\ op' = "none"
    /\ args' = NoArgs
    /\ method' = "GET"
    /\ endpoint' = ""
    /\ params' = {}
    /\ use_cache' = TRUE
    /\ tries' = 0
    /\ retry_total' = 0
    /\ attempts' = 0
    /\ hist' = << >>
    /\ cached_data' = None
    /\ outcome' = NoOutcome

\* the call ends: it returns or raises out of the backoff wrapper
Finish(out) ==
    /\ pc' = "done"
    /\ outcome' = out

\* no operation of the calling thread is in progress
Ready == pc \in {"idle", "done"} /\ batch_pc # "loop"

Methods == {"GET", "POST", "DELETE"}
Endpoints == {"/webhooks", "/weather/alerts"}

\* direct use of the transport
MakeRequest ==
    /\ Ready
    /\ \E m \in Methods, e \in Endpoints, uc \in BOOLEAN :
          EnterRequest("_make_request", NoArgs, m, e, {}, uc)
    /\ UNCHANGED <<other_vars, max_retries, cache, now, last_saved, batch_vars>>

\* lines 198-205: the cache check that opens every invocation
CheckCache ==
    /\ pc = "request"
    /\ cached_data' = IF method = "GET" /\ use_cache
                       THEN _get_from_cache(cache,
                               _get_cache_key(endpoint, params), now)
                       ELSE None
    /\ IF method = "GET" /\ use_cache /\ Truthy(cached_data')
       THEN Finish(Returned(cached_data'[1])) /\ UNCHANGED retry_total
       ELSE /\ pc' = "send"
            /\ retry_total' = max_retries
            /\ UNCHANGED outcome
    /\ UNCHANGED <<other_vars, max_retries, cache, now, op, args, method, endpoint, params,
                   use_cache, tries, attempts, hist, last_saved, batch_vars>>

\* what happens to an exception that leaves the body of _make_request:
\* backoff calls the function again or gives up.  backoff reads the elapsed
\* time when an invocation starts, so max_time (60 s) can be found exceeded
\* from the second invocation on.
Leave(exc, max_time_exceeded) ==
    IF /\ backoff_retries(exc.kind)
       /\ tries < max_tries
       /\ ~(max_time_exceeded /\ tries > 1)
    THEN /\ pc' = "request"
         /\ tries' = tries + 1
         /\ UNCHANGED outcome
    ELSE /\ Finish(exc)
         /\ UNCHANGED tries

\* lines 253-255: a RequestException is logged and re-raised as WeatherAPIError
RequestFailed == Raised("WeatherAPIError", "Request failed")

\* the adapter's Retry takes the attempt: connection errors for every method,
\* read errors and the statuses of status_forcelist for the whitelisted ones
AdapterRetries(m, resp) ==
    \/ resp.type = "connect_error"
    \/ resp.type = "read_error" /\ is_method_retryable(m)
    \/ resp.type = "http" /\ is_retry(m, resp.status)

\* lines 212-255: one network attempt of session.request and what follows
\* it, the transport answering with one of the responses R
SessionRequestOf(R) ==
    /\ pc = "send"
    /\ \E resp \in R, max_time_exceeded \in BOOLEAN :
        /\ attempts' = attempts + 1
        /\ hist' = Append(hist, resp)
        /\ IF AdapterRetries(method, resp)
           THEN IF retry_total - 1 < 0
                THEN \* MaxRetryError, raised by requests as a RequestException
                     /\ Leave(RequestFailed, max_time_exceeded)
                     /\ UNCHANGED <<retry_total, cache, last_saved>>
                ELSE /\ retry_total' = retry_total - 1
                     /\ UNCHANGED <<pc, tries, outcome, cache, last_saved>>
           ELSE IF resp.type = "read_error"
                THEN /\ Leave(RequestFailed, max_time_exceeded)
                     /\ UNCHANGED <<retry_total, cache, last_saved>>
                ELSE IF StatusError(resp) # NoOutcome
                     THEN /\ Leave(StatusError(resp), max_time_exceeded)
                          /\ UNCHANGED <<retry_total, cache, last_saved>>
                     ELSE /\ IF method = "GET" /\ use_cache
                             THEN LET key == _get_cache_key(endpoint, params)
                                  IN /\ cache' = _save_to_cache(cache, key,
                                                                resp.body, now)
                                     /\ last_saved' = Written(last_saved, key,
                                                              resp.body, now)
                             ELSE UNCHANGED <<cache, last_saved>>
                          /\ Finish(Returned(resp.body))
                          /\ UNCHANGED <<retry_total, tries>>
    /\ UNCHANGED <<other_vars, max_retries, now, op, args, method, endpoint, params,
                   use_cache, cached_data, batch_vars>>

SessionRequest == SessionRequestOf(Responses)

\* time passes between the operations of the calling thread
Tick ==
    /\ pc \in {"idle", "done"}
    /\ now + cache_ttl \div 2 <= MaxTime
    /\ now' = now + cache_ttl \div 2
    /\ UNCHANGED <<other_vars, max_retries, cache, pc, call_vars, last_saved, batch_vars>>

----------------------------------------------------------------------------
(* Client operations *)

Locations == {None, Some(""), Some("London")}
Coordinates == {None, Some(0), Some(10)}

\* a cacheable GET for a key the cache does not hold is issued only while the
\* cache has room for it (bound of the model)
CacheRoom(e, p) ==
    \/ _get_cache_key(e, p) \in DOMAIN cache
    \/ Cardinality(DOMAIN cache) < MaxCacheEntries

\* `if location: params['city'] = location else: params['lat'], params['lon']`
LocationParams(a) ==
    IF TruthyStr(a.location)
    THEN {<<"city", a.location[1]>>}
    ELSE {<<"lat", JsonNum(a.lat)>>, <<"lon", JsonNum(a.lon)>>}

\* line 285
location_missing(a) ==
    ~TruthyStr(a.location) /\ ~(TruthyNum(a.lat) /\ TruthyNum(a.lon))

CurrentParams(a) ==
    {<<"units", "metric">>, <<"lang", "en">>} \cup LocationParams(a)

get_current_weather(a) ==
    IF location_missing(a)
    THEN Reject("get_current_weather", a,
                Raised("ValueError", "Either location or coordinates required"))
    ELSE EnterRequest("get_current_weather", a, "GET", "/weather/current",
                      CurrentParams(a), TRUE)

\* line 322 with the lower limit excluded: days=1 is refused
days_in_range_LowerExclusive(days) == 1 < days /\ days <= 7

\* line 322
days_in_range(days) == 1 <= days /\ days <= 7

ForecastParams(a) ==
    {<<"days", ToString(a.days)>>, <<"units", "metric">>} \cup LocationParams(a)

get_forecast(a) ==
    IF ~days_in_range(a.days)
    THEN Reject("get_forecast", a,
                Raised("ValueError", "Days must be between 1 and 7"))
    ELSE EnterRequest("get_forecast", a, "GET", "/weather/forecast",
                      ForecastParams(a), TRUE)

HistoricalParams(a) ==
    {<<"date", "2024-01-15">>, <<"units", "metric">>} \cup LocationParams(a)

get_historical_weather(a) ==
    EnterRequest("get_historical_weather", a, "GET", "/weather/historical",
                 HistoricalParams(a), TRUE)

get_alerts(a) ==
    EnterRequest("get_alerts", a, "GET", "/weather/alerts",
                 LocationParams(a), TRUE)

\* line 420
limit_in_range(limit) == 1 <= limit /\ limit <= 10

SearchParams(a) == {<<"q", "york">>, <<"limit", ToString(a.limit)>>}

search_locations(a) ==
    IF ~limit_in_range(a.limit)
    THEN Reject("search_locations", a,
                Raised("ValueError", "Limit must be between 1 and 10"))
    ELSE EnterRequest("search_locations", a, "GET", "/locations/search",
                      SearchParams(a), TRUE)

\* what the operation hands back of _make_request's return value
OpResult ==
    IF op = "search_locations" THEN DictGet(outcome.data, "results", {})
    ELSE outcome.data

GetCurrentWeather ==
    /\ Ready
    /\ \E location \in Locations, lat \in Coordinates, lon \in Coordinates :
         LET a == [NoArgs EXCEPT !.location = location, !.lat = lat, !.lon = lon]
         IN /\ location_missing(a) \/ CacheRoom("/weather/current", CurrentParams(a))
            /\ get_current_weather(a)
    /\ UNCHANGED <<other_vars, max_retries, cache, now, last_saved, batch_vars>>

GetForecast ==
    /\ Ready
    /\ \E location \in {None, Some("London")}, days \in 0..MaxDays :
         LET a == [NoArgs EXCEPT !.location = location, !.days = days]
         IN /\ ~days_in_range(days) \/ CacheRoom("/weather/forecast", ForecastParams(a))
            /\ get_forecast(a)
    /\ UNCHANGED <<other_vars, max_retries, cache, now, last_saved, batch_vars>>

GetHistoricalWeather ==
    /\ Ready
    /\ \E location \in {None, Some("London")} :
         LET a == [NoArgs EXCEPT !.location = location]
         IN /\ CacheRoom("/weather/historical", HistoricalParams(a))
            /\ get_historical_weather(a)
    /\ UNCHANGED <<other_vars, max_retries, cache, now, last_saved, batch_vars>>

GetAlerts ==
    /\ Ready
    /\ \E location \in {None, Some("London")} :
         LET a == [NoArgs EXCEPT !.location = location]
         IN /\ CacheRoom("/weather/alerts", LocationParams(a))
            /\ get_alerts(a)
    /\ UNCHANGED <<other_vars, max_retries, cache, now, last_saved, batch_vars>>

SearchLocations ==
    /\ Ready
    /\ \E limit \in 0..MaxLimit :
         LET a == [NoArgs EXCEPT !.limit = limit]
         IN /\ ~limit_in_range(limit) \/ CacheRoom("/locations/search", SearchParams(a))
            /\ search_locations(a)
    /\ UNCHANGED <<other_vars, max_retries, cache, now, last_saved, batch_vars>>

----------------------------------------------------------------------------
(* batch_weather_request *)

BatchLocations == {"", "London", "Paris"}
RequestTypes == {"current", "forecast", "hourly"}

RECURSIVE SeqsUpTo(_, _)
SeqsUpTo(S, n) ==
    IF n = 0 THEN { << >> }
    ELSE LET shorter == SeqsUpTo(S, n - 1)
         IN shorter \cup { Append(q, x) : q \in shorter, x \in S }

\* `except WeatherAPIError` catches the class and its subclasses
IsWeatherAPIError(cls) ==
    cls \in {"WeatherAPIError", "AuthenticationError", "RateLimitError"}

\* results[location] = value
DictPut(d, k, v) == [x \in DOMAIN d \cup {k} |-> IF x = k THEN v ELSE d[x]]

\* {"error": str(e)}
ErrorMarker(exc) == {<<"error", exc.msg>>}

\* lines 531-533: the call and the start of the loop
BatchWeatherRequest ==
    /\ Ready
    /\ Cardinality(DOMAIN cache) <= MaxCacheEntries
    /\ \E locs \in SeqsUpTo(BatchLocations, MaxBatch), t \in RequestTypes :
         /\ locations' = locs
         /\ request_type' = t
    /\ batch_pc' = "loop"
    /\ batch_i' = 1
    /\ results' = << >>
    /\ pc' = "idle"
    /\ NoCall
    /\ UNCHANGED <<other_vars, max_retries, cache, now, last_saved>>

\* lines 533-540: the next location's call, or line 546 when none is left
BatchIterate ==
    /\ batch_pc = "loop"
    /\ pc = "idle"
    /\ IF batch_i > Len(locations)
       THEN /\ batch_pc' = "returned"
            /\ UNCHANGED <<pc, call_vars, locations, request_type, batch_i, results>>
       ELSE /\ LET a == [NoArgs EXCEPT !.location = Some(locations[batch_i])]
               IN IF request_type = "current"
                  THEN get_current_weather(a)
                  ELSE IF request_type = "forecast"
                       THEN get_forecast([a EXCEPT !.days = default_days])
                       ELSE Reject("batch_weather_request", a,
                                   Raised("ValueError", "Invalid request type"))
            /\ UNCHANGED batch_vars
    /\ UNCHANGED <<other_vars, max_retries, cache, now, last_saved>>

\* lines 536-544: the location's call has ended
BatchCollect ==
    /\ batch_pc = "loop"
    /\ pc = "done"
    /\ pc' = "idle"
    /\ NoCall
    /\ IF outcome.kind = "ok"
       THEN /\ results' = DictPut(results, locations[batch_i], outcome.data)
            /\ batch_i' = batch_i + 1
            /\ UNCHANGED batch_pc
       ELSE IF IsWeatherAPIError(outcome.kind)
            THEN /\ results' = DictPut(results, locations[batch_i],
                                       ErrorMarker(outcome))
                 /\ batch_i' = batch_i + 1
                 /\ UNCHANGED batch_pc
            ELSE \* any other exception leaves batch_weather_request
                 /\ batch_pc' = "raised"
                 /\ UNCHANGED <<results, batch_i>>
    /\ UNCHANGED <<other_vars, max_retries, cache, now, last_saved, locations, request_type>>

----------------------------------------------------------------------------
(* Webhook management *)

WebhookIds == {"wh_1"}

\* answers to GET /webhooks: the empty object and a list of one webhook
WebhookPayloads == { EmptyPayload, {<<"webhooks", <<"wh_1">>>>} }

WebhookResponses ==
    { HttpResponse(200, NoHeader, b) : b \in WebhookPayloads }
    \cup { HttpResponse(s, NoHeader, EmptyPayload) : s \in Statuses \ {200} }
    \cup { ConnectError, ReadError }

\* the transport answering the webhook calls
WebhookSessionRequest == SessionRequestOf(WebhookResponses)

\* line 474: response.get('webhooks', [])
list_webhooks_result(response) == DictGet(response, "webhooks", << >>)

\* lines 452-464: the body goes to the server and nowhere else
CreateWebhook ==
    /\ Ready
    /\ EnterRequest("create_webhook", NoArgs, "POST", "/webhooks", {}, TRUE)
    /\ after_mutation' = FALSE
    /\ UNCHANGED <<max_retries, cache, now, last_saved, batch_vars,
                   monitor_vars, shared_vars>>

\* line 473; the history notes whether the call before it changed a webhook
ListWebhooks ==
    /\ Ready
    /\ EnterRequest("list_webhooks", NoArgs, "GET", "/webhooks", {}, TRUE)
    /\ after_mutation' = ( /\ pc = "done"
                           /\ op \in {"create_webhook", "delete_webhook"}
                           /\ outcome.kind = "ok" )
    /\ UNCHANGED <<max_retries, cache, now, last_saved, batch_vars,
                   monitor_vars, shared_vars>>

\* the caller of the webhook operations also asks for the forecast of one
\* place, with a day count in or out of range
GetLondonForecast ==
    /\ Ready
    /\ \E days \in {0, default_days} :
         get_forecast([NoArgs EXCEPT !.location = Some("London"), !.days = days])
    /\ after_mutation' = FALSE
    /\ UNCHANGED <<max_retries, cache, now, last_saved, batch_vars,
                   monitor_vars, shared_vars>>

\* line 486
DeleteWebhook ==
    /\ Ready
    /\ \E webhook_id \in WebhookIds :
         EnterRequest("delete_webhook", NoArgs, "DELETE",
                      "/webhooks/" \o webhook_id, {}, TRUE)
    /\ after_mutation' = FALSE
    /\ UNCHANGED <<max_retries, cache, now, last_saved, batch_vars,
                   monitor_vars, shared_vars>>

----------------------------------------------------------------------------
(* WeatherMonitor *)

MonitorLocations == {"A", "A:B"}
Parameters == {"temperature", "B:temperature"}
Operators == {">", "~"}
ThresholdValues == {30}

\* answers to GET /weather/current: without 'current', with an empty
\* 'current', with a temperature below and above the thresholds
WeatherPayloads ==
    { EmptyPayload,
      {<<"current", {}>>},
      {<<"current", {<<"temperature", 29>>}>>},
      {<<"current", {<<"temperature", 31>>}>>} }

WeatherResponses ==
    { HttpResponse(200, NoHeader, b) : b \in WeatherPayloads }
    \cup { HttpResponse(401, NoHeader, EmptyPayload),
           HttpResponse(503, NoHeader, EmptyPayload) }

\* the transport answering the monitor's client
WeatherSessionRequest == SessionRequestOf(WeatherResponses)

\* line 593: f"{location}:{parameter}"
threshold_key(l, parameter) == l \o ":" \o parameter

\* d[key] = value of a dict, which keeps insertion order: a new key goes
\* last, a key the dict holds keeps its place
OrderedPut(d, key, value) ==
    IF \E i \in 1..Len(d) : d[i][1] = key
    THEN [i \in 1..Len(d) |-> IF d[i][1] = key THEN <<key, value>> ELSE d[i]]
    ELSE Append(d, <<key, value>>)

\* a run of check_thresholds is in progress
Running == mon_pc \in {"locations", "fetch", "rules", "callbacks"}

\* the owner of the monitor may change its rules and callbacks
Owner == Ready /\ ~Running

\* lines 593-599
SetThreshold ==
    /\ Owner
    /\ \E parameter \in Parameters, operator \in Operators,
          value \in ThresholdValues, l \in MonitorLocations :
         LET key == threshold_key(l, parameter)
         IN /\ \/ \E i \in 1..Len(thresholds) : thresholds[i][1] = key
               \/ Len(thresholds) < MaxRules
            /\ thresholds' = OrderedPut(thresholds, key,
                                 [operator |-> operator, value |-> value,
                                  parameter |-> parameter, location |-> l])
    /\ UNCHANGED <<max_retries, cache, now, pc, call_vars, last_saved, batch_vars,
                   after_mutation, shared_vars, callbacks, thread, mon_pc,
                   mon_error, monitored, mon_location, current_data, rule_i,
                   cb_i, fetched, observed, evaluated, invoked>>

\* lines 608-610: the n-th callable registered is callback n
OnThresholdExceeded ==
    /\ Owner
    /\ Len(callbacks) < MaxCallbacks
    /\ callbacks' = Append(callbacks, Len(callbacks) + 1)
    /\ UNCHANGED <<max_retries, cache, now, pc, call_vars, last_saved, batch_vars,
                   after_mutation, shared_vars, thresholds, thread, mon_pc,
                   mon_error, monitored, mon_location, current_data, rule_i,
                   cb_i, fetched, observed, evaluated, invoked>>

\* line 614: a run starts with the set of the rules' locations
check_thresholds ==
    /\ mon_pc' = "locations"
    /\ mon_error' = "none"
    /\ monitored' = { thresholds[i][2].location : i \in 1..Len(thresholds) }
    /\ mon_location' = ""
    /\ current_data' = {}
    /\ rule_i' = 0
    /\ cb_i' = 0
    /\ fetched' = << >>
    /\ observed' = << >>
    /\ evaluated' = << >>
    /\ invoked' = << >>

\* an exception leaves check_thresholds; in monitor_loop it ends the thread
check_thresholds_raises(cls) ==
    /\ mon_pc' = "raised"
    /\ mon_error' = cls
    /\ thread' = IF thread = "checking" THEN "dead" ELSE thread

\* the owner calls check_thresholds
CheckThresholds ==
    /\ Owner
    /\ thread = "none"
    /\ check_thresholds
    /\ UNCHANGED <<max_retries, cache, now, pc, call_vars, last_saved, batch_vars,
                   after_mutation, shared_vars, thresholds, callbacks, thread>>

\* lines 616-618: the loop takes a location of the set, in no fixed order,
\* and asks the client for its weather; line 643 falls through to here
NextLocation ==
    /\ mon_pc = "locations"
    /\ IF monitored = {}
       THEN /\ mon_pc' = "returned"
            /\ thread' = IF thread = "checking" THEN "sleep" ELSE thread
            /\ UNCHANGED <<pc, call_vars, monitored, mon_location, fetched>>
       ELSE /\ \E l \in monitored :
                 /\ monitored' = monitored \ {l}
                 /\ mon_location' = l
                 /\ fetched' = Append(fetched, l)
                 /\ get_current_weather([NoArgs EXCEPT !.location = Some(l)])
            /\ mon_pc' = "fetch"
            /\ UNCHANGED thread
    /\ UNCHANGED <<max_retries, cache, now, last_saved, batch_vars,
                   after_mutation, shared_vars, thresholds, callbacks,
                   mon_error, current_data, rule_i, cb_i, observed, evaluated,
                   invoked>>

\* lines 618-619 and 642-643: the client's call has ended
WeatherReceived ==
    /\ mon_pc = "fetch"
    /\ pc = "done"
    /\ pc' = "idle"
    /\ NoCall
    /\ IF outcome.kind = "ok"
       THEN IF \E kv \in outcome.data : kv[1] = "current"
            THEN /\ current_data' = DictGet(outcome.data, "current", {})
                 /\ observed' = DictPut(observed, mon_location, current_data')
                 /\ mon_pc' = "rules"
                 /\ rule_i' = 1
                 /\ UNCHANGED <<mon_error, thread>>
            ELSE /\ check_thresholds_raises("KeyError")
                 /\ UNCHANGED <<current_data, observed, rule_i>>
       ELSE IF IsWeatherAPIError(outcome.kind)
            THEN /\ mon_pc' = "locations"
                 /\ UNCHANGED <<mon_error, thread, current_data, observed, rule_i>>
            ELSE /\ check_thresholds_raises(outcome.kind)
                 /\ UNCHANGED <<current_data, observed, rule_i>>
    /\ UNCHANGED <<max_retries, cache, now, last_saved, batch_vars,
                   after_mutation, shared_vars, thresholds, callbacks,
                   monitored, mon_location, cb_i, fetched, evaluated, invoked>>

\* str.startswith
str_startswith(str, prefix) ==
    Len(prefix) <= Len(str) /\ SubSeq(str, 1, Len(prefix)) = prefix

\* lines 647-654
ValidOperators == {">", "<", ">=", "<=", "==", "!="}

\* lines 647-659, for an operator of the table
_check_condition(value, operator, threshold) ==
    CASE operator = ">" -> value > threshold
      [] operator = "<" -> value < threshold
      [] operator = ">=" -> value >= threshold
      [] operator = "<=" -> value <= threshold
      [] operator = "==" -> value = threshold
      [] operator = "!=" -> value # threshold

\* lines 634-640: the event handed to the callbacks
EventData(l, threshold, value) ==
    [location |-> l, parameter |-> threshold.parameter, value |-> value,
     threshold |-> threshold.value, operator |-> threshold.operator]

\* lines 621-633: the inner loop is at one item of thresholds
EvaluateRule ==
    /\ mon_pc = "rules"
    /\ IF rule_i > Len(thresholds)
       THEN /\ mon_pc' = "locations"
            /\ rule_i' = 0
            /\ UNCHANGED <<mon_error, thread, cb_i, evaluated>>
       ELSE LET key == thresholds[rule_i][1]
                threshold == thresholds[rule_i][2]
                param == threshold.parameter
            IN IF ~str_startswith(key, mon_location \o ":")
               THEN /\ rule_i' = rule_i + 1
                    /\ UNCHANGED <<mon_pc, mon_error, thread, cb_i, evaluated>>
               ELSE /\ evaluated' = Append(evaluated,
                                       [rule |-> rule_i, location |-> mon_location])
                    /\ IF ~(\E kv \in current_data : kv[1] = param)
                       THEN /\ rule_i' = rule_i + 1
                            /\ UNCHANGED <<mon_pc, mon_error, thread, cb_i>>
                       ELSE IF threshold.operator \notin ValidOperators
                            THEN /\ check_thresholds_raises("ValueError")
                                 /\ UNCHANGED <<rule_i, cb_i>>
                            ELSE IF _check_condition(DictGet(current_data, param, 0),
                                                     threshold.operator,
                                                     threshold.value)
                                 THEN /\ mon_pc' = "callbacks"
                                      /\ cb_i' = 1
                                      /\ UNCHANGED <<mon_error, thread, rule_i>>
                                 ELSE /\ rule_i' = rule_i + 1
                                      /\ UNCHANGED <<mon_pc, mon_error, thread, cb_i>>
    /\ UNCHANGED <<max_retries, cache, now, pc, call_vars, last_saved, batch_vars,
                   after_mutation, shared_vars, thresholds, callbacks,
                   monitored, mon_location, current_data, fetched, observed,
                   invoked>>

\* what a callback does when it is called: it returns or it raises
CallbackRaises == {"none", "RuntimeError"}

\* line 667 with the handler of line 642: only API errors are caught
IsException_OnlyWeatherAPIError(cls) == IsWeatherAPIError(cls)

\* `except Exception` of line 667: every class but those that derive from
\* BaseException alone
IsException(cls) == cls \notin {"SystemExit", "KeyboardInterrupt", "GeneratorExit"}

\* lines 663-668: _trigger_callbacks is at one callback of the list
InvokeCallback ==
    /\ mon_pc = "callbacks"
    /\ IF cb_i > Len(callbacks)
       THEN /\ mon_pc' = "rules"
            /\ rule_i' = rule_i + 1
            /\ cb_i' = 0
            /\ UNCHANGED <<mon_error, thread, invoked>>
       ELSE \E exc \in CallbackRaises :
            LET threshold == thresholds[rule_i][2]
                data == EventData(mon_location, threshold,
                                  DictGet(current_data, threshold.parameter, 0))
            IN /\ invoked' = Append(invoked,
                                 [rule |-> rule_i, callback |-> callbacks[cb_i],
                                  data |-> data, raised |-> exc])
               /\ IF exc = "none" \/ IsException(exc)
                  THEN /\ cb_i' = cb_i + 1
                       /\ UNCHANGED <<mon_pc, mon_error, thread, rule_i>>
                  ELSE /\ check_thresholds_raises(exc)
                       /\ UNCHANGED <<rule_i, cb_i>>
    /\ UNCHANGED <<max_retries, cache, now, pc, call_vars, last_saved, batch_vars,
                   after_mutation, shared_vars, thresholds, callbacks,
                   monitored, mon_location, current_data, fetched, observed,
                   evaluated>>

\* lines 677-685: the thread is created and started
StartMonitoring ==
    /\ Owner
    /\ thread = "none"
    /\ thread' = "loop"
    /\ UNCHANGED <<max_retries, cache, now, pc, call_vars, last_saved, batch_vars,
                   after_mutation, shared_vars, thresholds, callbacks, mon_pc,
                   mon_error, monitored, mon_location, current_data, rule_i,
                   cb_i, fetched, observed, evaluated, invoked>>

\* lines 680-681: the thread calls check_thresholds
MonitorLoop ==
    /\ thread = "loop"
    /\ thread' = "checking"
    /\ check_thresholds
    /\ UNCHANGED <<max_retries, cache, now, pc, call_vars, last_saved, batch_vars,
                   after_mutation, shared_vars, thresholds, callbacks>>

\* line 682: time.sleep(interval) returns
MonitorSleep ==
    /\ thread = "sleep"
    /\ thread' = "loop"
    /\ UNCHANGED <<max_retries, cache, now, pc, call_vars, last_saved, batch_vars,
                   after_mutation, shared_vars, thresholds, callbacks, mon_pc,
                   mon_error, monitored, mon_location, current_data, rule_i,
                   cb_i, fetched, observed, evaluated, invoked>>

----------------------------------------------------------------------------
(* _save_to_cache run by two threads on one client *)

\* The thread of start_monitoring and the caller's thread use the same
\* WeatherClient.  self._cache names a dict object; line 157 stores into the
\* object it names at that moment, the comprehension of lines 161-164 reads
\* the object it names when the iteration starts and builds a new object, and
\* the assignment makes self._cache name the new object.  The interpreter may
\* switch threads between any two of these steps and inside the iteration.

\* the dict object the comprehension of thread t builds
ObjectOf(t) == IF t = "caller" THEN 1 ELSE 2

\* a thread's successful cacheable GET reaches line 249 with its key and the
\* body of the response
EnterSave(t, key, data) ==
    /\ saving[t].pc = "idle"
    /\ saving' = [saving EXCEPT ![t] = [NoFrame EXCEPT !.pc = "insert",
                                                      !.key = key,
                                                      !.data = data]]
    /\ UNCHANGED <<heap, self_cache>>

\* line 618 on the monitor's thread: get_current_weather(location) succeeded
MonitorSaves ==
    /\ \E l \in MonitorLocations, b \in WeatherPayloads :
         EnterSave("monitor",
                   _get_cache_key("/weather/current",
                       CurrentParams([NoArgs EXCEPT !.location = Some(l)])),
                   b)
    /\ UNCHANGED <<max_retries, cache, now, pc, call_vars, last_saved, batch_vars,
                   after_mutation, monitor_vars>>

\* a cacheable GET of the caller's thread succeeded: list_webhooks or get_alerts
CallerSaves ==
    /\ \E e \in Endpoints, b \in Payloads :
         EnterSave("caller", _get_cache_key(e, {}), b)
    /\ UNCHANGED <<max_retries, cache, now, pc, call_vars, last_saved, batch_vars,
                   after_mutation, monitor_vars>>

\* line 157: self._cache[cache_key] = (data, time.time())
Insert ==
    /\ \E t \in Threads :
         /\ saving[t].pc = "insert"
         /\ heap' = [heap EXCEPT ![self_cache] =
                        DictPut(@, saving[t].key,
                                [data |-> saving[t].data, timestamp |-> now])]
         /\ saving' = [saving EXCEPT ![t].pc = "sweep"]
    /\ UNCHANGED <<max_retries, cache, now, pc, call_vars, last_saved, batch_vars,
                   after_mutation, monitor_vars, self_cache>>

\* lines 160-162: self._cache.items() is read and its iteration starts
BeginSweep ==
    /\ \E t \in Threads :
         /\ saving[t].pc = "sweep"
         /\ saving' = [saving EXCEPT ![t].pc = "iterating",
                                     ![t].src = self_cache,
                                     ![t].size = Cardinality(DOMAIN heap[self_cache])]
    /\ UNCHANGED <<max_retries, cache, now, pc, call_vars, last_saved, batch_vars,
                   after_mutation, monitor_vars, heap, self_cache>>

\* lines 161-164: the iteration ends.  A dict that changed size since the
\* iteration started makes the iterator raise RuntimeError, which nothing in
\* _make_request catches; otherwise the swept copy is built
EndSweep ==
    /\ \E t \in Threads :
         /\ saving[t].pc = "iterating"
         /\ LET d == heap[saving[t].src]
                kept == {k \in DOMAIN d : now - d[k].timestamp < cache_ttl}
            IN IF Cardinality(DOMAIN d) # saving[t].size
               THEN /\ saving' = [saving EXCEPT ![t].pc = "raised",
                                               ![t].error = "RuntimeError"]
                    /\ UNCHANGED heap
               ELSE /\ heap' = [o \in DOMAIN heap \cup {ObjectOf(t)} |->
                                   IF o = ObjectOf(t) THEN [k \in kept |-> d[k]]
                                                      ELSE heap[o]]
                    /\ saving' = [saving EXCEPT ![t].pc = "assign"]
    /\ UNCHANGED <<max_retries, cache, now, pc, call_vars, last_saved, batch_vars,
                   after_mutation, monitor_vars, self_cache>>

\* line 161: self._cache = <the new dict>, and the call returns
Assign ==
    /\ \E t \in Threads :
         /\ saving[t].pc = "assign"
         /\ self_cache' = ObjectOf(t)
         /\ saving' = [saving EXCEPT ![t].pc = "returned"]
    /\ UNCHANGED <<max_retries, cache, now, pc, call_vars, last_saved, batch_vars,
                   after_mutation, monitor_vars, heap>>

----------------------------------------------------------------------------
(* Specifications *)

\* the transport and its cache over time
Next ==
    \/ MakeRequest
    \/ CheckCache
    \/ SessionRequest
    \/ Tick

Spec == Init /\ [][Next]_vars

\* the transport under every configured max_retries
NextRetry ==
    \/ MakeRequest
    \/ CheckCache
    \/ SessionRequest

SpecRetry == InitRetry /\ [][NextRetry]_vars

\* the client operations
NextClient ==
    \/ GetCurrentWeather
    \/ GetForecast
    \/ GetHistoricalWeather
    \/ GetAlerts
    \/ SearchLocations
    \/ CheckCache
    \/ SessionRequest

SpecClient == Init /\ [][NextClient]_vars

\* batch requests
NextBatch ==
    \/ BatchWeatherRequest
    \/ BatchIterate
    \/ BatchCollect
    \/ CheckCache
    \/ SessionRequest

SpecBatch == Init /\ [][NextBatch]_vars

\* webhook management next to a cached read of the weather, over time
NextWebhooks ==
    \/ ListWebhooks
    \/ CreateWebhook
    \/ DeleteWebhook
    \/ GetLondonForecast
    \/ CheckCache
    \/ WebhookSessionRequest
    \/ Tick

SpecWebhooks == Init /\ [][NextWebhooks]_vars

\* the monitor, its owner calling check_thresholds
NextMonitor ==
    \/ SetThreshold
    \/ OnThresholdExceeded
    \/ CheckThresholds
    \/ NextLocation
    \/ WeatherReceived
    \/ EvaluateRule
    \/ InvokeCallback
    \/ CheckCache
    \/ WeatherSessionRequest

SpecMonitor == Init /\ [][NextMonitor]_vars

\* one cache write of the monitor's thread next to one of the caller's
NextShared ==
    \/ MonitorSaves
    \/ CallerSaves
    \/ Insert
    \/ BeginSweep
    \/ EndSweep
    \/ Assign

SpecShared == Init /\ [][NextShared]_vars

\* the steps of the thread of start_monitoring
MonitorThread ==
    \/ MonitorLoop
    \/ MonitorSleep
    \/ NextLocation
    \/ WeatherReceived
    \/ EvaluateRule
    \/ InvokeCallback
    \/ CheckCache
    \/ WeatherSessionRequest

\* the monitor polling on its thread
NextMonitoring ==
    \/ SetThreshold
    \/ OnThresholdExceeded
    \/ StartMonitoring
    \/ MonitorThread

\* a started thread that can take a step is scheduled, the transport answers
\* every attempt and time.sleep returns
SpecMonitoring == Init /\ [][NextMonitoring]_vars /\ WF_vars(MonitorThread)

----------------------------------------------------------------------------
(* Properties of the cache and of the retry layers *)

\* the key of the call in progress
CallKey == _get_cache_key(endpoint, params)

\* the step that performs the cache check of lines 198-205
IsCacheCheck == pc = "request" /\ pc' # "request"

\* C1: whenever the cache holds an unexpired entry for the key of a cacheable
\* GET, _make_request returns that entry's value and makes no network call,
\* whatever the stored payload is (the empty payload included).
C1_CacheHitMakesNoNetworkCall ==
    [][ ( /\ IsCacheCheck
          /\ method = "GET" /\ use_cache
          /\ CallKey \in DOMAIN cache
          /\ now - cache[CallKey].timestamp < cache_ttl )
        => ( /\ pc' = "done"
             /\ outcome' = Returned(cache[CallKey].data)
             /\ attempts' = attempts ) ]_vars

\* C2: a value written for a key at time t0 is what every lookup of that key
\* returns, unchanged, at any time t with t - t0 < ttl, and every lookup at a
\* time t with t - t0 >= ttl is a miss; a lookup changes nothing in the
\* cache, so earlier lookups never extend the entry's lifetime.
C2_LookupFollowsLastWrite ==
    [][ ( /\ IsCacheCheck
          /\ method = "GET" /\ use_cache
          /\ CallKey \in DOMAIN last_saved )
        => ( /\ cached_data' =
                  IF now - last_saved[CallKey].timestamp < cache_ttl
                  THEN Some(last_saved[CallKey].data)
                  ELSE None
             /\ cache' = cache ) ]_vars

\* C2, its case: a lookup found the entry still stored but of age >= ttl and
\* reported a miss, so the call went on to the network
C2_Witness_StaleEntryMissed ==
    /\ pc = "send"
    /\ method = "GET" /\ use_cache
    /\ cached_data = None
    /\ CallKey \in DOMAIN cache
    /\ now - cache[CallKey].timestamp >= cache_ttl

IsPrefix(s, t) == Len(s) <= Len(t) /\ SubSeq(t, 1, Len(s)) = s

\* two HTTP 503 responses followed by an HTTP 200 response
Script_503_503_200 ==
    { << HttpResponse(503, NoHeader, EmptyPayload),
         HttpResponse(503, NoHeader, EmptyPayload),
         HttpResponse(200, NoHeader, b) >> : b \in Payloads }

\* C3: when the transport answers a request with 503, 503, 200, the call
\* returns the payload of the 200 response and raises nothing, after exactly
\* three attempts.  Stated for a client whose max_retries allows two retries:
\* a call that has ended and was so far answered along the script has
\* consumed the whole script and returned its payload.
C3_TwoRetriesThenSuccess ==
    ( /\ pc = "done"
      /\ max_retries >= 2
      /\ hist # << >>
      /\ \E sc \in Script_503_503_200 : IsPrefix(hist, sc) )
    => ( /\ hist \in Script_503_503_200
         /\ attempts = 3
         /\ outcome = Returned(hist[3].body) )

\* a transient failure: a network-level exception or HTTP 429/500/502/503/504
Transient(resp) ==
    \/ resp.type \in {"connect_error", "read_error"}
    \/ resp.type = "http" /\ resp.status \in status_forcelist

\* C4: a call that meets only transient failures makes a number of attempts
\* bounded by the configured max_retries and by no other constant, and then
\* surfaces an error.  Stated in its weakest reading, max_retries retries
\* after the first attempt.
C4_AttemptsBoundedByMaxRetries ==
    (\A i \in 1..Len(hist) : Transient(hist[i]))
    => ( /\ attempts <= max_retries + 1
         /\ (pc = "done" /\ hist # << >>) => outcome.kind \notin {"ok", "none"} )

\* C5: a first response of 401 or 404 ends the call after exactly one attempt
\* with an error; every network-level exception and every 429/500/502/503/504
\* response is retried while retries remain, for every method.
C5_RetryOnlyAndAlwaysOnTransient ==
    [][ pc = "send"
        => LET last == hist'[Len(hist')]
           IN /\ ( /\ Len(hist') = 1
                   /\ last.type = "http" /\ last.status \in {401, 404} )
                 => ( /\ pc' = "done"
                      /\ attempts' = 1
                      /\ outcome'.kind \notin {"ok", "none"} )
              /\ ( /\ Transient(last)
                   /\ attempts' <= max_retries )
                 => pc' # "done" ]_vars

\* the error each kind of failure is to surface as
ExpectedError(resp) ==
    IF resp.type # "http" THEN Raised("WeatherAPIError", "Request failed")
    ELSE IF resp.status = 401 THEN Raised("AuthenticationError", "Invalid API key")
    ELSE IF resp.status = 429
         THEN RaisedRateLimit(IF resp.retry_after = NoHeader
                              THEN 60 ELSE resp.retry_after)
    ELSE IF resp.status = 404 THEN Raised("WeatherAPIError", "Resource not found")
    ELSE Raised("WeatherAPIError", "Server error")

\* C6: the error a request finally surfaces names its cause: 401 the
\* authentication kind, 429 the rate-limit kind with the Retry-After value
\* (60 without the header), 404 not-found, >= 500 server-error, a
\* network-level failure the generic transport kind; the five are distinct.
C6_ErrorKindNamesCause ==
    /\ Cardinality({ <<ExpectedError(r).kind, ExpectedError(r).msg>> :
                       r \in { HttpResponse(401, NoHeader, EmptyPayload),
                               HttpResponse(429, NoHeader, EmptyPayload),
                               HttpResponse(404, NoHeader, EmptyPayload),
                               HttpResponse(503, NoHeader, EmptyPayload),
                               ConnectError } }) = 5
    /\ ( /\ pc = "done"
         /\ hist # << >>
         /\ outcome.kind \notin {"ok", "none"}
         /\ LET last == hist[Len(hist)]
            IN \/ last.type # "http"
               \/ last.status \in {401, 404, 429}
               \/ last.status >= 500 )
       => outcome = ExpectedError(hist[Len(hist)])

----------------------------------------------------------------------------
(* Properties of the client operations *)

\* the entries a returned batch is to hold: weather data or an error marker
IsBatchEntry(v) ==
    \/ v \in Payloads
    \/ \E kv \in v : kv[1] = "error"

\* C7: batch_weather_request never raises because of a failure of a single
\* location's call (API error or input-validation error): it runs through the
\* whole list and returns a mapping with an entry, weather data or an error
\* marker, for every location of the list.
C7_BatchIsolatesFailures ==
    /\ (batch_pc = "raised") => (request_type \notin {"current", "forecast"})
    /\ (batch_pc = "returned")
       => ( /\ batch_i = Len(locations) + 1
            /\ DOMAIN results = { locations[i] : i \in 1..Len(locations) }
            /\ \A l \in DOMAIN results : IsBatchEntry(results[l]) )

\* the call was rejected by input validation before any network or cache use
Rejected ==
    /\ pc = "done"
    /\ outcome.kind = "ValueError"
    /\ attempts = 0
    /\ cached_data = None

\* C8: get_current_weather fails with an input-validation error, before any
\* network call, if and only if neither a location name nor a (lat, lon) pair
\* is supplied; a supplied pair of coordinates, zero included, is accepted
\* and goes to the request as the lat and lon parameters.
C8_CurrentWeatherRequiresLocationOrPair ==
    (op = "get_current_weather")
    => LET named == TruthyStr(args.location)
           pair == args.lat # None /\ args.lon # None
       IN /\ (~named /\ ~pair) => Rejected
          /\ (named \/ pair) => outcome.kind # "ValueError"
          /\ (~named /\ pair)
             => {<<"lat", JsonNum(args.lat)>>, <<"lon", JsonNum(args.lon)>>}
                   \subseteq params

\* C9: get_forecast, get_historical_weather and get_alerts called with neither
\* a location name nor a (lat, lon) pair fail with an input-validation error
\* and make no network call and no cache access.
C9_OtherOperationsRequireLocation ==
    ( /\ op \in {"get_forecast", "get_historical_weather", "get_alerts"}
      /\ batch_pc # "loop"
      /\ ~TruthyStr(args.location)
      /\ args.lat = None /\ args.lon = None )
    => Rejected

\* the step by which a caller invokes client operation o
IsCallOf(o) ==
    /\ pc \in {"idle", "done"}
    /\ pc' \in {"request", "done"}
    /\ op' = o
    /\ <<pc, call_vars>>' # <<pc, call_vars>>

\* C10: get_forecast is rejected with an input-validation error exactly when
\* days is outside [1,7], search_locations exactly when limit is outside
\* [1,10]; the rejection comes before any network call and leaves the cache
\* unchanged; the values 1 and 7 (1 and 10) are accepted and go to the request.
C10_RangeValidation ==
    [][ /\ IsCallOf("get_forecast")
           => IF args'.days < 1 \/ args'.days > 7
              THEN Rejected' /\ cache' = cache
              ELSE /\ pc' = "request"
                   /\ attempts' = 0
                   /\ <<"days", ToString(args'.days)>> \in params'
        /\ IsCallOf("search_locations")
           => IF args'.limit < 1 \/ args'.limit > 10
              THEN Rejected' /\ cache' = cache
              ELSE /\ pc' = "request"
                   /\ attempts' = 0
                   /\ <<"limit", ToString(args'.limit)>> \in params'
        /\ (op' = "get_forecast" /\ outcome'.kind = "ValueError")
           => (args'.days < 1 \/ args'.days > 7)
        /\ (op' = "search_locations" /\ outcome'.kind = "ValueError")
           => (args'.limit < 1 \/ args'.limit > 10) ]_vars

\* C10, its case: get_forecast(days=8) was rejected by a client whose cache
\* holds an entry, after get_forecast(days=7) had been answered and cached
C10_Witness_RejectedWithCacheKept ==
    /\ op = "get_forecast"
    /\ args.days = 8
    /\ Rejected
    /\ \E k \in DOMAIN cache : k[1] = "/weather/forecast" /\ <<"days", "7">> \in k[2]

----------------------------------------------------------------------------
(* Properties of the monitor *)

\* the rule stored at position i of thresholds
RuleOf(i) == thresholds[i][2]

\* the comparison of rule i holds against the value this run observed for
\* the rule's parameter at the rule's location
ComparisonHolds(i) ==
    LET r == RuleOf(i)
    IN /\ r.location \in DOMAIN observed
       /\ \E kv \in observed[r.location] : kv[1] = r.parameter
       /\ r.operator \in ValidOperators
       /\ _check_condition(DictGet(observed[r.location], r.parameter, 0),
                           r.operator, r.value)

\* the invocations the run made for rule i, in the order it made them
InvokedFor(i) ==
    LET made == SelectSeq(invoked, LAMBDA v : v.rule = i)
    IN [k \in 1..Len(made) |-> <<made[k].callback, made[k].data>>]

\* the step by which a run of check_thresholds returns
Returns == mon_pc = "locations" /\ mon_pc' = "returned"

\* every rule whose comparison holds had every callback invoked once, in
\* registration order, with the rule's own data; no other rule had any
CallbacksFollowRules ==
    \A i \in 1..Len(thresholds) :
       IF ComparisonHolds(i)
       THEN LET r == RuleOf(i)
                data == [location |-> r.location, parameter |-> r.parameter,
                         value |-> DictGet(observed[r.location], r.parameter, 0),
                         threshold |-> r.value, operator |-> r.operator]
            IN InvokedFor(i) = [k \in 1..Len(callbacks) |-> <<callbacks[k], data>>]
       ELSE InvokedFor(i) = << >>

\* C11: when a run of check_thresholds returns, every rule whose comparison
\* holds against the observed value of its parameter had every registered
\* callback invoked exactly once, in registration order, with the rule's
\* location, parameter, observed value, threshold and operator; every other
\* rule had no callback invoked.
C11_CallbacksFollowRules == [][ Returns => CallbacksFollowRules' ]_vars

\* C12: a callback that raises changes nothing in the course of the run: the
\* step that invokes a callback, whether it returns or raises, leaves the run
\* at the next callback of the same rule with the locations still to visit
\* untouched; the exception that leaves check_thresholds is never a
\* callback's; and in a run that has returned every invocation of a callback
\* but the last registered is followed by the invocation of the next one for
\* the same rule.
C12_CallbackFailureIsContained ==
    [][ /\ (mon_pc = "callbacks" /\ cb_i <= Len(callbacks))
           => ( /\ mon_pc' = "callbacks"
                /\ cb_i' = cb_i + 1
                /\ rule_i' = rule_i
                /\ monitored' = monitored
                /\ mon_error' = "none"
                /\ thread' = thread
                /\ Len(invoked') = Len(invoked) + 1
                /\ invoked'[Len(invoked')].callback = callbacks[cb_i] )
        /\ mon_error' \notin (CallbackRaises \ {"none"})
        /\ Returns
           => \A q \in 1..Len(invoked') :
                invoked'[q].callback < Len(callbacks')
                => ( /\ q < Len(invoked')
                     /\ invoked'[q + 1].rule = invoked'[q].rule
                     /\ invoked'[q + 1].callback = invoked'[q].callback + 1 )
      ]_vars

\* C12, its case: the first of two callbacks raised for a rule, the second was
\* invoked for it all the same, the run went on to fetch the other location's
\* weather and returned
C12_Witness_RaisedThenWentOn ==
    /\ mon_pc = "returned"
    /\ Len(callbacks) = 2
    /\ Len(thresholds) = 2
    /\ RuleOf(1).location # RuleOf(2).location
    /\ Len(invoked) >= 2
    /\ invoked[1].raised = "RuntimeError"
    /\ invoked[1].callback = 1
    /\ invoked[2].callback = 2
    /\ invoked[2].rule = invoked[1].rule
    /\ Len(fetched) = 2
    /\ fetched[1] = invoked[1].data.location

\* C13: a rule with an operator outside {>, <, >=, <=, ==, !=} fails input
\* validation before any network call: no fetch of current weather is ever
\* in progress for a location one of whose rules has such an operator.
C13_UnknownOperatorNeverFetched ==
    (mon_pc = "fetch")
    => \A i \in 1..Len(thresholds) :
         RuleOf(i).location = mon_location
         => RuleOf(i).operator \in ValidOperators

\* a run of check_thresholds has just started on the monitor's thread
RunStarts == thread = "checking" /\ mon_pc = "locations" /\ fetched = << >>

\* C14: once start_monitoring has been called, another run of
\* check_thresholds always eventually starts, whatever the rules are and
\* whatever the earlier runs met.
C14_MonitoringNeverStops == [](thread # "none" => <>RunStarts)

\* the rules a thresholds dict holds
Rules(d) == { d[i][2] : i \in 1..Len(d) }

\* C15: the rule set holds one rule per (location, parameter) pair, and a
\* set_threshold call replaces only a rule with the same location and the
\* same parameter: a rule that leaves the rule set leaves it for a new rule
\* of its own (location, parameter) pair.
C15_UpsertByLocationAndParameter ==
    [][ /\ \A r \in Rules(thresholds) \ Rules(thresholds') :
              \E n \in Rules(thresholds') \ Rules(thresholds) :
                  n.location = r.location /\ n.parameter = r.parameter
        /\ \A i, j \in 1..Len(thresholds') :
              ( /\ thresholds'[i][2].location = thresholds'[j][2].location
                /\ thresholds'[i][2].parameter = thresholds'[j][2].parameter )
              => i = j
      ]_vars

\* no location fetched twice, no rule evaluated twice or under a location
\* that is not its own
OncePerLocationAndRule ==
    /\ \A i, j \in 1..Len(fetched) : fetched[i] = fetched[j] => i = j
    /\ \A i \in 1..Len(evaluated) :
         evaluated[i].location = RuleOf(evaluated[i].rule).location
    /\ \A i, j \in 1..Len(evaluated) :
         evaluated[i].rule = evaluated[j].rule => i = j

\* every monitored location was fetched and every rule whose location's
\* weather was read has been evaluated
AllFetchedAndEvaluated ==
    /\ { fetched[i] : i \in 1..Len(fetched) }
          = { RuleOf(i).location : i \in 1..Len(thresholds) }
    /\ \A i \in 1..Len(thresholds) :
          RuleOf(i).location \in DOMAIN observed
          => \E e \in 1..Len(evaluated) : evaluated[e].rule = i

\* C16: in one run current weather is fetched once per distinct monitored
\* location and each rule is evaluated at most once, under its own location
\* only; when the run returns, every location was fetched and every rule
\* whose location's weather was read has been evaluated.
C16_OneFetchAndOwnLocationOnly ==
    [][ /\ Running' => OncePerLocationAndRule'
        /\ Returns => (OncePerLocationAndRule' /\ AllFetchedAndEvaluated') ]_vars

----------------------------------------------------------------------------
(* Properties of the cache under all operations *)

\* the step by which _make_request returns the body of a response it received
ReturnsResponse == pc = "send" /\ pc' = "done" /\ outcome'.kind = "ok"

\* C17: the cache changes only on a successful cacheable GET: a step that
\* adds, refreshes or removes an entry is the step by which a GET with
\* use_cache returns the body of a 200 response, so a request that ends in
\* an error of any kind, and every POST and DELETE, leaves the cache as it was.
C17_CacheChangesOnlyOnSuccessfulGet ==
    [][ (cache' # cache)
        => ( /\ ReturnsResponse
             /\ method = "GET" /\ use_cache
             /\ LET last == hist'[Len(hist')]
                IN /\ last.type = "http" /\ last.status = 200
                   /\ outcome' = Returned(last.body) ) ]_vars

\* C17, its case: a cacheable GET whose entry had expired went to the network
\* and failed, and the expired entry is still in the cache, with the
\* timestamp of its write
C17_Witness_FailedGetKeepsEntry ==
    /\ pc = "done"
    /\ method = "GET" /\ use_cache
    /\ attempts >= 1
    /\ outcome.kind = "WeatherAPIError"
    /\ CallKey \in DOMAIN cache
    /\ cache[CallKey] = last_saved[CallKey]
    /\ now - cache[CallKey].timestamp >= cache_ttl

\* C18: right after every cache write the cache holds the written key with
\* the written value and the current timestamp, holds no entry of age >= ttl,
\* holds every other entry that was there before and is younger than ttl,
\* unchanged, and holds nothing else.
C18_WriteThenSweep ==
    [][ (ReturnsResponse /\ method = "GET" /\ use_cache)
        => ( /\ CallKey \in DOMAIN cache'
             /\ cache'[CallKey] = [data |-> outcome'.data, timestamp |-> now]
             /\ \A k \in DOMAIN cache' : now - cache'[k].timestamp < cache_ttl
             /\ \A k \in DOMAIN cache \ {CallKey} :
                   now - cache[k].timestamp < cache_ttl
                   => (k \in DOMAIN cache' /\ cache'[k] = cache[k])
             /\ DOMAIN cache' \subseteq DOMAIN cache \cup {CallKey} ) ]_vars

\* C18, its case: a write has just stored its entry and swept out another
\* key's entry, whose age was exactly ttl
C18_Witness_SweptAtTtl ==
    /\ pc = "done"
    /\ method = "GET" /\ use_cache
    /\ outcome.kind = "ok"
    /\ attempts = 1
    /\ CallKey \in DOMAIN cache
    /\ cache[CallKey].timestamp = now
    /\ \E k \in DOMAIN last_saved \ DOMAIN cache :
          now - last_saved[k].timestamp = cache_ttl

\* the key under which the list of webhooks is cached
WebhooksKey == _get_cache_key("/webhooks", {})

\* C19: within ttl of a list_webhooks that stored a non-empty payload, every
\* further list_webhooks returns the list of that payload from the cache and
\* makes no network call, whatever was called in between, create_webhook and
\* delete_webhook included.
C19_WebhookListServedFromCache ==
    [][ ( /\ IsCacheCheck
          /\ op = "list_webhooks"
          /\ WebhooksKey \in DOMAIN last_saved
          /\ last_saved[WebhooksKey].data # EmptyPayload
          /\ now - last_saved[WebhooksKey].timestamp < cache_ttl )
        => ( /\ pc' = "done"
             /\ outcome' = Returned(last_saved[WebhooksKey].data)
             /\ list_webhooks_result(outcome'.data)
                  = list_webhooks_result(last_saved[WebhooksKey].data)
             /\ attempts' = 0
             /\ hist' = << >>
             /\ cache' = cache ) ]_vars

\* C19, its case: a list_webhooks called right after a successful
\* create_webhook or delete_webhook was answered from the cache, with the
\* list stored before the mutation
C19_Witness_StaleListAfterMutation ==
    /\ pc = "done"
    /\ op = "list_webhooks"
    /\ after_mutation
    /\ attempts = 0
    /\ outcome.kind = "ok"
    /\ list_webhooks_result(outcome.data) = <<"wh_1">>

----------------------------------------------------------------------------
(* Properties of the cache shared by two threads *)

\* C20: when the monitor's thread and the caller's thread each complete a
\* successful cacheable GET for different keys, then under every interleaving
\* of their _save_to_cache steps neither call fails because of the other, and
\* once both have returned the cache holds both entries.
C20_ConcurrentSavesKeepBothEntries ==
    /\ \A t \in Threads : saving[t].pc # "raised"
    /\ (\A t \in Threads : saving[t].pc = "returned")
       => \A t \in Threads :
            /\ saving[t].key \in DOMAIN heap[self_cache]
            /\ heap[self_cache][saving[t].key].data = saving[t].data

----------------------------------------------------------------------------
(* Properties of the monitor under API errors *)

\* the step by which check_thresholds learns that the fetch for the
\* location the loop is at ended in an API error
FetchFailed ==
    /\ mon_pc = "fetch"
    /\ pc = "done"
    /\ IsWeatherAPIError(outcome.kind)
    /\ mon_pc' # "fetch"

\* the locations of the run whose fetch ended in an API error
FailedLocations ==
    { fetched[i] : i \in 1..Len(fetched) } \ DOMAIN observed

\* no callback was invoked for a rule of a location whose fetch failed
NoCallbackForFailedLocation ==
    \A q \in 1..Len(invoked) :
       RuleOf(invoked[q].rule).location \notin FailedLocations

\* C21: an API error (WeatherAPIError, AuthenticationError, RateLimitError)
\* while fetching one monitored location is caught: the run goes on to the
\* locations still to visit and no exception leaves check_thresholds; and
\* when the run returns no callback was invoked for a rule of a location
\* whose fetch failed, while every other location was fetched and its rules
\* evaluated.
C21_ApiErrorIsolatedPerLocation ==
    [][ /\ FetchFailed
           => ( /\ mon_pc' = "locations"
                /\ mon_error' = "none"
                /\ monitored' = monitored
                /\ invoked' = invoked
                /\ thread' = thread )
        /\ Returns
           => (NoCallbackForFailedLocation' /\ AllFetchedAndEvaluated') ]_vars

====
